---- MODULE Spec2Model ----
(***************************************************************************)
(* Model of the streaming crawler of app.py: the /crawl endpoint's stream  *)
(* generator (the orchestrator), the ThreadPoolExecutor's workers running  *)
(* crawl_single, and the URL classifier predicates they use.               *)
(*                                                                         *)
(* A URL is a record [netloc, path] of character sequences: what urlparse  *)
(* makes of the URL string.  Two URLs are the same string iff the records  *)
(* are equal.  An href is an anchor's attribute before urljoin.            *)
(***************************************************************************)
EXTENDS Integers, Sequences, FiniteSets, TLC

\* ---------------- CONFIG (app.py:12-16) ----------------
THREADS == 10
MAX_API_CALLS_PER_PAGE == 5

\* ---------------- bounds of the model ----------------
MaxPagesBound == 5
MaxDepthBound == 2
\* the fan scenario: links on the seed page, and the request's max_pages
FanLinks == 4
FanMaxPages == 3
\* the most API URLs found on one page
MaxApiUrls == 6

\* ---------------- strings ----------------
\* str.lower() on the letters the modelled URLs use
LowerChar(c) ==
    CASE c = "A" -> "a"
      [] c = "U" -> "u"
      [] c = "T" -> "t"
      [] c = "H" -> "h"
      [] OTHER -> c

lower(s) == [i \in 1..Len(s) |-> LowerChar(s[i])]

\* k in s, for strings
Contains(s, k) ==
    \E i \in 0..(Len(s) - Len(k)) : SubSeq(s, i + 1, i + Len(k)) = k

\* the URL string: scheme separators carry no keyword character
Text(url) == url.netloc \o url.path

U(netloc, path) == [netloc |-> netloc, path |-> path]

\* ---------------- URL classifier ----------------
login_keywords ==
    { <<"l","o","g","i","n">>, <<"s","i","g","n","i","n">>,
      <<"s","i","g","n","-","i","n">>, <<"a","u","t","h">>,
      <<"a","c","c","o","u","n","t">> }

tracking_keys ==
    { <<"u","t","m","_">>, <<"r","e","f","=">>,
      <<"t","r","a","c","k","i","n","g">>, <<"g","c","l","i","d">>,
      <<"f","b","c","l","i","d">> }

\* urlparse raises ValueError ("Invalid IPv6 URL") on a netloc with one of
\* "[" and "]" and not the other
HasChar(s, c) == \E i \in 1..Len(s) : s[i] = c
ParseRaises(url) == HasChar(url.netloc, "[") # HasChar(url.netloc, "]")

\* is_internal without the try: the comparison alone
is_internal_NoTry(base, link) == base.netloc = link.netloc

is_internal(base, link) ==
    IF ParseRaises(base) \/ ParseRaises(link) THEN FALSE
    ELSE base.netloc = link.netloc

is_login_page(url) == \E k \in login_keywords : Contains(lower(Text(url)), k)

is_tracking(url) == \E k \in tracking_keys : Contains(lower(Text(url)), k)

\* ---------------- hrefs and urljoin ----------------
\* An href: skip = it starts with "#", "javascript:" or "mailto:";
\* bad = urlsplit raises ValueError on it (such as "javascript://[");
\* netloc = <<>> for a host-relative href.
Href(netloc, path) == [skip |-> FALSE, bad |-> FALSE, netloc |-> netloc, path |-> path]
BadHref == [skip |-> FALSE, bad |-> TRUE, netloc |-> <<>>, path |-> <<"[">>]
BadJsHref == [skip |-> TRUE, bad |-> TRUE, netloc |-> <<>>, path |-> <<"[">>]

\* urljoin(url, href) for an href it accepts: an absolute href is the
\* result, a host-relative one takes the page's host
urljoin(url, href) ==
    IF href.netloc = <<>> THEN U(url.netloc, href.path)
    ELSE U(href.netloc, href.path)

\* ---------------- the site being crawled ----------------
Seed == U(<<"s">>, <<"/">>)
PageA == U(<<"s">>, <<"/", "a">>)
PageB == U(<<"s">>, <<"/", "b">>)
PageC == U(<<"s">>, <<"/", "c">>)

\* seed URLs a request may carry: a page of the site, a string with no scheme
\* and no host ("nope"), and a login URL of the site
BadSeed == U(<<>>, <<"n", "o", "p", "e">>)
LoginSeed == U(<<"s">>, <<"/", "l", "o", "g", "i", "n">>)
SeedUrls == {Seed, BadSeed, LoginSeed}

\* the fan site: the seed page links to FanLinks distinct pages of its host
DigitChar(d) ==
    CASE d = 0 -> "0" [] d = 1 -> "1" [] d = 2 -> "2" [] d = 3 -> "3"
      [] d = 4 -> "4" [] d = 5 -> "5" [] d = 6 -> "6" [] d = 7 -> "7"
      [] d = 8 -> "8" [] OTHER -> "9"

RECURSIVE Digits(_)
Digits(k) ==
    IF k < 10 THEN <<DigitChar(k)>> ELSE Digits(k \div 10) \o <<DigitChar(k % 10)>>

FanPath(k) == <<"/", "p">> \o Digits(k)
FanPage(k) == U(<<"s">>, FanPath(k))
FanPages == {FanPage(k) : k \in 1..FanLinks}

\* the bodies a GET of url may be answered with, each as its anchors' hrefs
Bodies(site, url) ==
    IF site = "fan"
    THEN IF url = Seed THEN { [k \in 1..FanLinks |-> Href(<<>>, FanPath(k))] }
         ELSE { <<>> }
    ELSE IF site = "leaf" THEN { <<>> }
    ELSE
    CASE url = Seed ->
            { << Href(<<>>, <<"/", "a">>), Href(<<>>, <<"/", "b">>),
                 Href(<<>>, <<"/", "A", "U", "T", "H">>), Href(<<"x">>, <<"/">>),
                 Href(<<>>, <<"/", "d">>) >> }
      [] url = PageA ->
            { << Href(<<>>, <<"/", "c">>), Href(<<"s">>, <<"/">>) >>,
              << BadJsHref >>, << BadHref >> }
      [] url = PageB ->
            { << Href(<<>>, <<"/", "c">>), Href(<<>>, <<"/", "?", "u", "t", "m", "_">>) >> }
      [] url = PageC -> { << Href(<<>>, <<"/", "a">>) >> }
      [] OTHER -> { <<>> }

\* what requests.get + raise_for_status can give: a failure (transport
\* error, timeout, non-2xx), or a body; on the fan site every fetch succeeds;
\* requests.get raises (MissingSchema, InvalidURL) on a URL with no host
FetchError == [ok |-> FALSE, hrefs |-> <<>>]
Responses(site, url) ==
    IF url.netloc = <<>> THEN {FetchError}
    ELSE (IF site = "fan" THEN {} ELSE {FetchError})
            \cup {[ok |-> TRUE, hrefs |-> h] : h \in Bodies(site, url)}

\* ---------------- crawl_single, the pure parts ----------------
None == [kind |-> "none"]
Raised == [kind |-> "raise"]

\* Rejected with the depth test off by one
Rejected_DepthOffByOne(url, depth, maxd) ==
    depth > maxd + 1 \/ is_login_page(url) \/ is_tracking(url)

\* Rejected without the login test
Rejected_NoLogin(url, depth, maxd) ==
    depth > maxd \/ is_tracking(url)

\* the checks before the lock: TRUE when crawl_single returns None there
Rejected(url, depth, maxd) ==
    depth > maxd \/ is_login_page(url) \/ is_tracking(url)

\* CanClaim without the page limit
CanClaim_NoCap(url, vis, maxp) == ~(url \in vis)

\* CanClaim with the page limit off by one
CanClaim_CapOffByOne(url, vis, maxp) ==
    ~(url \in vis \/ Cardinality(vis) > maxp)

\* CanClaim without the membership test
CanClaim_NoSeen(url, vis, maxp) == ~(Cardinality(vis) >= maxp)

\* the condition under the lock that lets the task insert url
CanClaim(url, vis, maxp) ==
    ~(url \in vis \/ Cardinality(vis) >= maxp)

\* extract_links (inside the try) raises when urljoin does, on an href it
\* does not skip
ExtractRaises(hrefs) ==
    \E i \in 1..Len(hrefs) : hrefs[i].bad /\ ~hrefs[i].skip

\* the loop after the try: urljoin on every href, outside any handler
NextLinksRaises(hrefs) == \E i \in 1..Len(hrefs) : hrefs[i].bad

\* NextLinks without the is_internal test
RECURSIVE NextLinks_NoFilter(_, _, _, _)
NextLinks_NoFilter(url, depth, base_url, hrefs) ==
    IF hrefs = <<>> THEN <<>>
    ELSE <<[url |-> urljoin(url, Head(hrefs)), depth |-> depth + 1]>>
             \o NextLinks_NoFilter(url, depth, base_url, Tail(hrefs))

RECURSIVE NextLinks(_, _, _, _)
NextLinks(url, depth, base_url, hrefs) ==
    IF hrefs = <<>> THEN <<>>
    ELSE LET next_url == urljoin(url, Head(hrefs))
             rest == NextLinks(url, depth, base_url, Tail(hrefs))
         IN  IF is_internal(base_url, next_url)
             THEN <<[url |-> next_url, depth |-> depth + 1]>> \o rest
             ELSE rest

\* FetchResult with the GET outside the try: a failed fetch propagates
FetchResult_Uncaught(url, depth, base_url, resp) ==
    IF ~resp.ok THEN Raised
    ELSE IF ExtractRaises(resp.hrefs) THEN None
    ELSE IF NextLinksRaises(resp.hrefs) THEN Raised
    ELSE [kind |-> "ok", page_data |-> [url |-> url],
          next_links |-> NextLinks(url, depth, base_url, resp.hrefs)]

\* what crawl_single returns (or raises) once url is claimed and the GET
\* was answered with resp
FetchResult(url, depth, base_url, resp) ==
    IF ~resp.ok \/ ExtractRaises(resp.hrefs) THEN None
    ELSE IF NextLinksRaises(resp.hrefs) THEN Raised
    ELSE [kind |-> "ok", page_data |-> [url |-> url],
          next_links |-> NextLinks(url, depth, base_url, resp.hrefs)]

\* ---------------- state ----------------
VARIABLES
    site,        \* which site the crawl runs on
    seed_url,    \* the request's url
    max_pages,   \* the request's max_pages
    max_depth,   \* the request's max_depth
    visited,     \* stream's visited set, shared with the workers
    queue,       \* stream's queue of (url, depth)
    futures,     \* every future submitted so far, in submission order
    waveStart,   \* number of futures submitted before the current wave
    fi,          \* position in the wave's list of the future the for loop is at
    pc,          \* where the generator is
    executor,    \* "open" until executor.shutdown()
    emitted,     \* the page_data yielded so far, in order
    claimLog,    \* history: the (url, depth, wave) of every passed claim
    completed,   \* history: the futures' indices in order of completion
    page,        \* one run of crawl_single's extraction (lines 370-400) on a page
    jts,         \* one call of json_to_sections
    cls          \* one call of each URL classifier predicate

vars == << site, seed_url, max_pages, max_depth, visited, queue, futures, waveStart, fi, pc,
           executor, emitted, claimLog, completed, page, jts, cls >>

\* what no step of a crawl changes
params == << site, seed_url, max_pages, max_depth, page, jts, cls >>

\* the variables of a crawl
crawlvars == << site, seed_url, max_pages, max_depth, visited, queue, futures, waveStart, fi,
                pc, executor, emitted, claimLog, completed >>

Off == [pc |-> "off"]

Start ==
    /\ visited = {}
    /\ queue = << [url |-> seed_url, depth |-> 0] >>
    /\ futures = <<>>
    /\ waveStart = 0
    /\ fi = 1
    /\ pc = "while"
    /\ executor = "open"
    /\ emitted = <<>>
    /\ claimLog = <<>>
    /\ completed = <<>>

\* no function call under way beside the crawl
NoCalls == page = Off /\ jts = Off /\ cls = Off

\* no crawl under way
NoCrawl ==
    /\ site = "none"
    /\ seed_url = Seed
    /\ max_pages = 0
    /\ max_depth = 0
    /\ Start

Init ==
    /\ site = "small"
    /\ seed_url \in SeedUrls
    /\ max_pages \in 0..MaxPagesBound
    /\ max_depth \in 0..MaxDepthBound
    /\ Start
    /\ NoCalls

InitFan ==
    /\ site = "fan"
    /\ seed_url = Seed
    /\ max_pages = FanMaxPages
    /\ max_depth \in 1..2
    /\ Start
    /\ NoCalls

\* a site whose seed page has no anchors
InitLeaf ==
    /\ site = "leaf"
    /\ seed_url = Seed
    /\ max_pages \in 0..MaxPagesBound
    /\ max_depth \in 0..MaxDepthBound
    /\ Start
    /\ NoCalls

\* ---------------- the workers ----------------
wave(i) == futures[i].wave
Busy == {j \in 1..Len(futures) : futures[j].st \in {"running", "claimed"}}

Finish(i, result) ==
    /\ futures' = [futures EXCEPT ![i].st = "done", ![i].result = result]
    /\ completed' = Append(completed, i)

\* as Finish, recording (history) whether the GET succeeded
FinishFetch(i, resp, result) ==
    /\ futures' = [futures EXCEPT ![i].st = "done", ![i].result = result,
                                  ![i].got = IF resp.ok THEN "ok" ELSE "error"]
    /\ completed' = Append(completed, i)

\* a free worker takes the oldest work item and runs crawl_single up to the lock
TaskStart(i) ==
    /\ futures[i].st = "queued"
    /\ \A j \in 1..(i - 1) : futures[j].st # "queued"
    /\ Cardinality(Busy) < THREADS
    /\ IF Rejected(futures[i].url, futures[i].depth, max_depth)
       THEN Finish(i, None)
       ELSE /\ futures' = [futures EXCEPT ![i].st = "running"]
            /\ UNCHANGED completed
    /\ UNCHANGED << params, visited, queue, waveStart, fi, pc, executor, emitted, claimLog >>

\* with lock: check, and insert
TaskClaim(i) ==
    /\ futures[i].st = "running"
    /\ IF CanClaim(futures[i].url, visited, max_pages)
       THEN /\ visited' = visited \cup {futures[i].url}
            /\ futures' = [futures EXCEPT ![i].st = "claimed"]
            /\ claimLog' = Append(claimLog,
                   [url |-> futures[i].url, depth |-> futures[i].depth, wave |-> wave(i), task |-> i])
            /\ UNCHANGED completed
       ELSE /\ Finish(i, None)
            /\ UNCHANGED << visited, claimLog >>
    /\ UNCHANGED << params, queue, waveStart, fi, pc, executor, emitted >>

\* TaskFetch that takes the url out of visited again when it returns None
TaskFetch_Unclaim(i) ==
    /\ futures[i].st = "claimed"
    /\ \E resp \in Responses(site, futures[i].url) :
          LET result == FetchResult(futures[i].url, futures[i].depth, seed_url, resp) IN
            /\ FinishFetch(i, resp, result)
            /\ visited' = IF result = None THEN visited \ {futures[i].url} ELSE visited
    /\ UNCHANGED << params, queue, waveStart, fi, pc, executor, emitted, claimLog >>

\* the GET, the extraction and the return
TaskFetch(i) ==
    /\ futures[i].st = "claimed"
    /\ \E resp \in Responses(site, futures[i].url) :
          FinishFetch(i, resp, FetchResult(futures[i].url, futures[i].depth, seed_url, resp))
    /\ UNCHANGED << params, visited, queue, waveStart, fi, pc, executor, emitted, claimLog >>

\* ---------------- stream, the generator ----------------
WhileCond == queue # <<>> /\ Cardinality(visited) < max_pages

NewFuture(entry, w) ==
    [url |-> entry.url, depth |-> entry.depth, wave |-> w, st |-> "queued",
     result |-> None, got |-> "nothing"]

CurrentWave == IF futures = <<>> THEN 0 ELSE futures[Len(futures)].wave

\* Submit without queue = []
Submit_NoReset ==
    /\ pc = "while"
    /\ WhileCond
    /\ futures' = futures \o [k \in 1..Len(queue) |-> NewFuture(queue[k], CurrentWave + 1)]
    /\ waveStart' = Len(futures)
    /\ fi' = 1
    /\ pc' = "for"
    /\ UNCHANGED << params, visited, queue, executor, emitted, claimLog, completed >>

\* the list comprehension of executor.submit, and queue = []
Submit ==
    /\ pc = "while"
    /\ WhileCond
    /\ futures' = futures \o [k \in 1..Len(queue) |-> NewFuture(queue[k], CurrentWave + 1)]
    /\ waveStart' = Len(futures)
    /\ fi' = 1
    /\ queue' = <<>>
    /\ pc' = "for"
    /\ UNCHANGED << params, visited, executor, emitted, claimLog, completed >>

\* the while condition fails: executor.shutdown() and the generator returns
LoopExit ==
    /\ pc = "while"
    /\ ~WhileCond
    /\ executor' = "shutdown"
    /\ pc' = "done"
    /\ UNCHANGED << params, visited, queue, futures, waveStart, fi, emitted, claimLog, completed >>

\* the wave's list of futures: its length, and the index in futures of the
\* k-th one "for fut in futures" visits
WaveLen == Len(futures) - waveStart

\* FutureAt visiting the list backwards
FutureAt_Reversed(k) == Len(futures) + 1 - k

FutureAt(k) == waveStart + k

\* ResultReady that does not wait (a future not done reads as no result)
ResultReady_NoWait(k) == TRUE

\* fut.result() blocks until the future is done
ResultReady(k) == futures[FutureAt(k)].st = "done"

\* where the for loop goes after the k-th future of the wave
AfterFuture(k) == IF k >= WaveLen THEN "while" ELSE "for"

\* fut.result() returns or raises; a result is yielded
TakeResult ==
    /\ pc = "for"
    /\ fi <= WaveLen
    /\ ResultReady(fi)
    /\ LET result == futures[FutureAt(fi)].result IN
         CASE result.kind = "none" ->
                 /\ fi' = fi + 1
                 /\ pc' = AfterFuture(fi)
                 /\ UNCHANGED emitted
           [] result.kind = "raise" ->
                 /\ pc' = "crashed"
                 /\ UNCHANGED << fi, emitted >>
           [] OTHER ->
                 /\ emitted' = Append(emitted, result.page_data)
                 /\ pc' = "yield"
                 /\ UNCHANGED fi
    /\ UNCHANGED << params, visited, queue, futures, waveStart, executor, claimLog, completed >>

\* the consumer asks for the next line: queue.extend(next_links), next future
Resume ==
    /\ pc = "yield"
    /\ queue' = queue \o futures[FutureAt(fi)].result.next_links
    /\ fi' = fi + 1
    /\ pc' = AfterFuture(fi)
    /\ UNCHANGED << params, visited, futures, waveStart, executor, emitted, claimLog, completed >>

\* Cancel that first waits for the submitted tasks, as a blocking
\* executor.shutdown() on the way out would
Cancel_Blocking ==
    /\ pc = "yield"
    /\ \A i \in 1..Len(futures) : futures[i].st = "done"
    /\ pc' = "cancelled"
    /\ UNCHANGED << params, visited, queue, futures, waveStart, fi, executor, emitted, claimLog, completed >>

\* the consumer stops reading: the generator is closed at the yield
\* (GeneratorExit), or is never resumed
Cancel ==
    /\ pc = "yield"
    /\ pc' = "cancelled"
    /\ UNCHANGED << params, visited, queue, futures, waveStart, fi, executor, emitted, claimLog, completed >>

Next ==
    \/ \E i \in 1..Len(futures) : TaskStart(i)
    \/ \E i \in 1..Len(futures) : TaskClaim(i)
    \/ \E i \in 1..Len(futures) : TaskFetch(i)
    \/ Submit
    \/ LoopExit
    \/ TakeResult
    \/ Resume
    \/ Cancel

Spec == Init /\ [][Next]_vars

\* the scenario of a seed page linking to FanLinks pages, all fetches succeeding
SpecFan == InitFan /\ [][Next]_vars

\* the scenario of a seed page with no outbound links
SpecLeaf == InitLeaf /\ [][Next]_vars

\* ---------------- crawl_single's extraction of one page ----------------
\* A section is [heading, content]; the three extractors' headings differ:
\* a document heading, "JSON-LD" / "App State", "API <path>".
Section(heading, content) == [heading |-> heading, content |-> content]

\* what build_structured_content_from_html may return for a page
HtmlOutputs ==
    { <<>>, << Section("Page", "p1") >>, << Section("Page", "p1"), Section("h2", "p2") >> }

\* what extract_json_sections_from_scripts may return for a page
ScriptOutputs ==
    { <<>>, << Section("App State", "s1") >>,
      << Section("JSON-LD", "s1"), Section("App State", "s2") >> }

\* how an API URL answers the GET: a JSON body, a body that is neither
\* declared JSON nor starts with "{" or "[", or a failure (transport error,
\* or a body resp.json() cannot parse)
ApiKinds == {"json", "nonjson", "fail"}

RECURSIVE SeqsUpTo(_, _)
SeqsUpTo(S, n) ==
    IF n = 0 THEN { <<>> }
    ELSE LET shorter == SeqsUpTo(S, n - 1)
         IN  shorter \cup {Append(q, x) : q \in {r \in shorter : Len(r) = n - 1}, x \in S}

\* json_to_sections of the k-th API URL's JSON body
ApiSection(k) == << Section("API", k) >>

\* line 387 with the operands in another order
Assemble_ScriptFirst(html_sections, json_script_sections, api_sections) ==
    json_script_sections \o html_sections \o api_sections

\* line 387
Assemble(html_sections, json_script_sections, api_sections) ==
    html_sections \o json_script_sections \o api_sections

InitPage ==
    /\ NoCrawl
    /\ jts = Off /\ cls = Off
    /\ \E h \in HtmlOutputs, sc \in ScriptOutputs, a \in SeqsUpTo(ApiKinds, MaxApiUrls) :
          page = [pc |-> "scripts", html |-> h, script |-> sc, api_urls |-> a,
                  json_script_sections |-> <<>>, api_sections |-> <<>>,
                  html_sections |-> <<>>, all_sections |-> <<>>,
                  k |-> 1, count |-> 0, gets |-> 0]

\* line 377
ExtractScripts ==
    /\ page.pc = "scripts"
    /\ page' = [page EXCEPT !.pc = "api", !.json_script_sections = page.script]
    /\ UNCHANGED << crawlvars, jts, cls >>

\* where one pass of the loop of fetch_api_json_sections leaves count, for
\* the answer it gets
CountAfter(count, kind) == IF kind = "json" THEN count + 1 ELSE count

\* one pass of the loop of fetch_api_json_sections: the GET and what follows
ApiGet ==
    /\ page.pc = "api"
    /\ page.k <= Len(page.api_urls)
    /\ ~(page.count >= MAX_API_CALLS_PER_PAGE)
    /\ LET kind == page.api_urls[page.k] IN
         page' = [page EXCEPT
                    !.gets = page.gets + 1,
                    !.k = page.k + 1,
                    !.count = CountAfter(page.count, kind),
                    !.api_sections =
                        IF kind = "json" THEN page.api_sections \o ApiSection(page.k)
                        ELSE page.api_sections]
    /\ UNCHANGED << crawlvars, jts, cls >>

\* the loop ends: the list is exhausted, or the break of line 256
ApiEnd ==
    /\ page.pc = "api"
    /\ (page.k > Len(page.api_urls) \/ page.count >= MAX_API_CALLS_PER_PAGE)
    /\ page' = [page EXCEPT !.pc = "html"]
    /\ UNCHANGED << crawlvars, jts, cls >>

\* line 384
BuildHtml ==
    /\ page.pc = "html"
    /\ page' = [page EXCEPT !.pc = "merge", !.html_sections = page.html]
    /\ UNCHANGED << crawlvars, jts, cls >>

\* line 387
Merge ==
    /\ page.pc = "merge"
    /\ page' = [page EXCEPT
                  !.pc = "done",
                  !.all_sections =
                      Assemble(page.html_sections, page.json_script_sections, page.api_sections)]
    /\ UNCHANGED << crawlvars, jts, cls >>

NextPage ==
    \/ ExtractScripts
    \/ ApiGet
    \/ ApiEnd
    \/ BuildHtml
    \/ Merge

\* the extraction of one page, for every extractor output within the bounds
SpecPage == InitPage /\ [][NextPage]_vars

\* ---------------- json_to_sections ----------------
\* A text is a sequence of tokens: a word ("w", or a word that begins with a
\* URL scheme), or a run of whitespace (" ").  A JSON value is a tagged
\* record: a string, a number, a list of values, or a dict as the sequence of
\* its (key, value) items.
JStr(text) == [t |-> "str", v |-> text]
JNum == [t |-> "num", v |-> <<>>]
JList(values) == [t |-> "list", v |-> values]
JDict(items) == [t |-> "dict", v |-> items]
Item(k, v) == [k |-> k, v |-> v]

HEADING_KEYS == {"title", "heading", "name"}
CONTENT_KEYS ==
    { "description", "overview", "summary", "details",
      "body", "content", "text", "objective", "objectives",
      "outcome", "outcomes", "eligibility", "syllabus" }

\* str.lower() on the keys and tokens the modelled documents use
LowerStr(x) ==
    CASE x = "Title" -> "title"
      [] x = "OVERVIEW" -> "overview"
      [] x = "HTTPS://U" -> "https://u"
      [] OTHER -> x

RECURSIVE lstrip(_)
lstrip(text) ==
    IF text # <<>> /\ Head(text) = " " THEN lstrip(Tail(text)) ELSE text

RECURSIVE rstrip(_)
rstrip(text) ==
    IF text # <<>> /\ text[Len(text)] = " "
    THEN rstrip(SubSeq(text, 1, Len(text) - 1)) ELSE text

strip(text) == rstrip(lstrip(text))

IsWord(tok) == tok # " "
split(text) == SelectSeq(text, IsWord)

\* text.lower().startswith(("http://", "https://"))
StartsHttp(text) ==
    text # <<>> /\ LowerStr(text[1]) \in {"http://u", "https://u"}

\* last_key: None, or a dict key
NoKey == [has |-> FALSE, k |-> ""]
Key(k) == [has |-> TRUE, k |-> k]
Falsy(last_key) == ~last_key.has \/ last_key.k = ""

\* add_text: the chunks it appends under key_path, none or one
add_text(key_path, text) ==
    LET stripped == strip(text) IN
      IF stripped = <<>> THEN <<>>
      ELSE IF StartsHttp(stripped) THEN <<>>
      ELSE IF Len(split(stripped)) < 5 THEN <<>>
      ELSE << [key |-> key_path, text |-> stripped] >>

\* the key test of walk that lets any key through
KeyAllowed_Any(last_key) == TRUE

\* the key test of walk (line 127-128)
KeyAllowed(last_key) ==
    LET key_lower == IF Falsy(last_key) THEN "" ELSE LowerStr(last_key.k) IN
      key_lower \in CONTENT_KEYS \/ key_lower \in HEADING_KEYS \/ Falsy(last_key)

\* walk: the chunks it adds, in order
RECURSIVE walk(_, _, _)
RECURSIVE walkItems(_, _)
RECURSIVE walkList(_, _, _)
walk(o, path, last_key) ==
    CASE o.t = "dict" -> walkItems(o.v, path)
      [] o.t = "list" -> walkList(o.v, path, last_key)
      [] o.t = "str" -> IF KeyAllowed(last_key) THEN add_text(path, o.v) ELSE <<>>
      [] OTHER -> <<>>

walkItems(items, path) ==
    IF items = <<>> THEN <<>>
    ELSE walk(Head(items).v, Append(path, Head(items).k), Key(Head(items).k))
             \o walkItems(Tail(items), path)

walkList(values, path, last_key) ==
    IF values = <<>> THEN <<>>
    ELSE walk(Head(values), path, last_key) \o walkList(Tail(values), path, last_key)

\* texts_by_key.setdefault(key, []).append(text), for the chunks in order
RECURSIVE Group(_, _)
Group(texts_by_key, added) ==
    IF added = <<>> THEN texts_by_key
    ELSE LET a == Head(added)
             at == {n \in 1..Len(texts_by_key) : texts_by_key[n].key = a.key}
         IN  IF at = {}
             THEN Group(Append(texts_by_key, [key |-> a.key, chunks |-> <<a.text>>]), Tail(added))
             ELSE LET n == CHOOSE m \in at : TRUE
                  IN  Group([texts_by_key EXCEPT ![n].chunks = Append(@, a.text)], Tail(added))

\* " ".join(chunks)
RECURSIVE Join(_)
Join(chunks) ==
    IF chunks = <<>> THEN <<>>
    ELSE IF Len(chunks) = 1 THEN chunks[1]
    ELSE chunks[1] \o <<" ">> \o Join(Tail(chunks))

\* the loop of lines 133-137
RECURSIVE ToSections(_)
ToSections(texts_by_key) ==
    IF texts_by_key = <<>> THEN <<>>
    ELSE LET content == strip(Join(Head(texts_by_key).chunks))
         IN  (IF content # <<>> THEN << Section(Head(texts_by_key).key, content) >> ELSE <<>>)
                 \o ToSections(Tail(texts_by_key))

\* the path of the top level: walk(obj, heading_prefix, None)
TopPath(heading_prefix) == << heading_prefix >>

\* the documents json_to_sections is called on
Long == << "w", "w", "w", "w", "w" >>
Longer == << "w", "w", "w", "w", "w", "w" >>
Short == << "w", "w", "w" >>
Four == << "w", "w", "w", "w" >>
Padded == << " ", "w", "w", "w", "w", "w", " " >>
Blank == << " " >>
UrlText == << "http://u", "w", "w", "w", "w" >>
UrlTextUpper == << "HTTPS://U", "w", "w", "w", "w" >>
UrlInside == << "w", "http://u", "w", "w", "w" >>
FtpText == << "ftp://u", "w", "w", "w", "w" >>
Texts ==
    { Long, Longer, Short, Four, Padded, Blank, UrlText, UrlTextUpper,
      UrlInside, FtpText }
Keys == {"title", "Title", "description", "overview", "OVERVIEW", "id", "url", ""}

Docs ==
    {JStr(x) : x \in Texts}
      \cup {JDict(<< Item(k, JStr(x)) >>) : k \in Keys, x \in Texts}
      \cup {JDict(<< Item(k, JList(<< JStr(x), JNum, JStr(y) >>)) >>) :
                k \in {"title", "id"}, x \in {Long, Short}, y \in {Padded, UrlText}}
      \cup {JDict(<< Item(k1, JDict(<< Item(k2, JStr(x)) >>)) >>) :
                k1 \in {"title", "id"}, k2 \in {"description", "id", ""}, x \in {Long, Four}}
      \cup {JDict(<< Item(k1, JStr(Long)), Item(k2, JStr(Longer)) >>) :
                k1 \in {"overview", "title"}, k2 \in {"id", "description"}}
      \cup {JList(<< JDict(<< Item("title", JStr(Long)) >>),
                     JDict(<< Item(k, JStr(Longer)) >>), JStr(x) >>) :
                k \in {"title", "id"}, x \in {Long, Short}}

InitJson ==
    /\ NoCrawl
    /\ page = Off /\ cls = Off
    /\ \E o \in Docs, prefix \in {"JSON-LD", "App State"} :
          jts = [pc |-> "call", obj |-> o, heading_prefix |-> prefix,
                 texts_by_key |-> <<>>, sections |-> <<>>]

\* walk(obj, heading_prefix, None), lines 116-131
Walk ==
    /\ jts.pc = "call"
    /\ jts' = [jts EXCEPT
                 !.pc = "walked",
                 !.texts_by_key = Group(<<>>, walk(jts.obj, TopPath(jts.heading_prefix), NoKey))]
    /\ UNCHANGED << crawlvars, page, cls >>

\* lines 133-139
BuildSections ==
    /\ jts.pc = "walked"
    /\ jts' = [jts EXCEPT !.pc = "done", !.sections = ToSections(jts.texts_by_key)]
    /\ UNCHANGED << crawlvars, page, cls >>

NextJson == Walk \/ BuildSections

\* json_to_sections on every document within the bounds
SpecJson == InitJson /\ [][NextJson]_vars

\* ---------------- the classifier on its own ----------------
\* URL strings the predicates are called on: pages of the site, a page of
\* another host, a tracking URL, two strings with no host ("nope", "x") and
\* one whose host urlparse rejects ("http://[/")
OtherHost == U(<<"x">>, <<"/">>)
TrackingUrl == U(<<"s">>, <<"/", "?", "R", "e", "f", "=">>)
NoHostUrl == U(<<>>, <<"x">>)
BracketUrl == U(<<"[">>, <<"/">>)
ClassifierUrls ==
    { Seed, PageA, LoginSeed, OtherHost, TrackingUrl, BadSeed, NoHostUrl, BracketUrl }

InitUrl ==
    /\ NoCrawl
    /\ page = Off /\ jts = Off
    /\ \E b \in ClassifierUrls, l \in ClassifierUrls :
          cls = [pc |-> "internal", base |-> b, link |-> l,
                 internal |-> None, login |-> None, tracking |-> None]

\* is_internal(base, link)
CallIsInternal ==
    /\ cls.pc = "internal"
    /\ cls' = [cls EXCEPT !.pc = "login", !.internal = is_internal(cls.base, cls.link)]
    /\ UNCHANGED << crawlvars, page, jts >>

\* is_login_page(link)
CallIsLoginPage ==
    /\ cls.pc = "login"
    /\ cls' = [cls EXCEPT !.pc = "tracking", !.login = is_login_page(cls.link)]
    /\ UNCHANGED << crawlvars, page, jts >>

\* is_tracking(link)
CallIsTracking ==
    /\ cls.pc = "tracking"
    /\ cls' = [cls EXCEPT !.pc = "done", !.tracking = is_tracking(cls.link)]
    /\ UNCHANGED << crawlvars, page, jts >>

NextUrl == CallIsInternal \/ CallIsLoginPage \/ CallIsTracking

\* the three predicates on every pair of URLs within the set
SpecUrl == InitUrl /\ [][NextUrl]_vars

\* ---------------- properties ----------------
Tasks == 1..Len(futures)
EmittedUrls == {emitted[k].url : k \in 1..Len(emitted)}
EmitPos(u) == CHOOSE k \in 1..Len(emitted) : emitted[k].url = u
CompletedPos(i) == CHOOSE k \in 1..Len(completed) : completed[k] = i
Claimed(i) == \E k \in 1..Len(claimLog) : claimLog[k].task = i
IsDone(i) == futures[i].st = "done"
IsOk(i) == IsDone(i) /\ futures[i].result.kind = "ok"
IsNone(i) == IsDone(i) /\ futures[i].result.kind = "none"

\* task i got to the lock and was refused there although its url was new:
\* it was refused by the page limit
CapRefused(i) ==
    /\ IsNone(i)
    /\ ~Rejected(futures[i].url, futures[i].depth, max_depth)
    /\ futures[i].url \notin visited

\* C1: over the whole crawl at most max_pages PageRecords are yielded.
C1_EmittedAtMostMaxPages == Len(emitted) <= max_pages

\* C1 witness: a crawl that yielded max_pages >= 2 records and ended, with a
\* link of the last wave left unclaimed for the limit.
C1_Witness ==
    /\ pc = "done"
    /\ max_pages >= 2
    /\ Len(emitted) = max_pages
    /\ \E i \in Tasks : CapRefused(i)

\* C2: |visited| <= max_pages in every state, and once |visited| = max_pages
\* no step changes visited and every task leaving the lock returns None.
C2_VisitedCapped ==
    /\ [](Cardinality(visited) <= max_pages)
    /\ [][Cardinality(visited) = max_pages =>
            /\ visited' = visited
            /\ \A i \in Tasks :
                  (futures[i].st = "running" /\ futures'[i].st # "running")
                      => (futures'[i].st = "done" /\ futures'[i].result = None)]_vars

\* C2 witness: the limit (>= 2) is reached while a task of the wave is still
\* before the lock, and another one has been refused at the lock.
C2_Witness ==
    /\ max_pages >= 2
    /\ Cardinality(visited) = max_pages
    /\ \E i \in Tasks : CapRefused(i)
    /\ \E i \in Tasks : futures[i].st = "running"

\* C3: no URL passes the claim twice (so none is fetched twice), and no two
\* yielded records have the same url.
C3_ClaimedOnce ==
    /\ \A k, l \in 1..Len(claimLog) : claimLog[k].url = claimLog[l].url => k = l
    /\ \A k, l \in 1..Len(emitted) : emitted[k].url = emitted[l].url => k = l
    /\ \A i \in Tasks : futures[i].st = "claimed" \/ futures[i].got # "nothing" => Claimed(i)

\* C3 witness: two tasks of one wave for the same URL, submitted because two
\* pages link to it; one passed the claim and its record was yielded, the
\* other was refused.
C3_Witness ==
    \E i, j \in Tasks :
        /\ i # j
        /\ wave(i) = wave(j)
        /\ wave(i) > 1
        /\ futures[i].url = futures[j].url
        /\ Claimed(i) /\ IsOk(i) /\ futures[i].url \in EmittedUrls
        /\ IsNone(j) /\ ~Claimed(j)

\* C4: every claimed (hence every fetched, every yielded) entry has
\* depth <= max_depth, where the seed has depth 0 and a link one more than
\* the page it was found on (the entries of wave w have depth w - 1).
C4_DepthBounded ==
    /\ \A k \in 1..Len(claimLog) : claimLog[k].depth <= max_depth
    /\ \A u \in EmittedUrls :
          \E k \in 1..Len(claimLog) : claimLog[k].url = u /\ claimLog[k].depth <= max_depth
    /\ \A i \in Tasks : futures[i].depth = wave(i) - 1
    /\ \A i \in Tasks : futures[i].depth > max_depth => ~Claimed(i) /\ futures[i].got = "nothing"

\* C4 witness: a page at depth max_depth was yielded and a link found on it,
\* at depth max_depth + 1 and not in visited, was dropped.
C4_Witness ==
    \E i, j \in Tasks :
        /\ futures[i].depth = max_depth /\ max_depth >= 1
        /\ IsOk(i) /\ futures[i].url \in EmittedUrls
        /\ futures[j].depth = max_depth + 1
        /\ IsNone(j) /\ futures[j].url \notin visited

\* C5 (as claimed): records of a wave are yielded in completion order: when
\* task j was submitted after task i of the same wave and completed before
\* it, j's record is yielded before i's.
C5_CompletionOrder ==
    \A i, j \in Tasks :
        ( /\ wave(i) = wave(j) /\ i < j
          /\ IsOk(i) /\ IsOk(j)
          /\ CompletedPos(j) < CompletedPos(i)
          /\ futures[i].url \in EmittedUrls )
        => ( /\ futures[j].url \in EmittedUrls
             /\ EmitPos(futures[j].url) < EmitPos(futures[i].url) )

\* What the generator does instead of C5: records are yielded in submission
\* order, and a record is yielded only when every task submitted before it
\* has completed.
C5_SubmissionOrder ==
    \A i, j \in Tasks :
        ( /\ i < j /\ IsOk(j) /\ futures[j].url \in EmittedUrls )
        => ( /\ IsDone(i)
             /\ IsOk(i) => ( /\ futures[i].url \in EmittedUrls
                             /\ EmitPos(futures[i].url) < EmitPos(futures[j].url) ) )

\* C5 witness: two tasks of one wave, the later-submitted one completed
\* first, and both records have been yielded.
C5_Witness ==
    \E i, j \in Tasks :
        /\ wave(i) = wave(j) /\ i < j
        /\ IsOk(i) /\ IsOk(j)
        /\ CompletedPos(j) < CompletedPos(i)
        /\ futures[i].url \in EmittedUrls /\ futures[j].url \in EmittedUrls

\* C6: while any task of a wave has not completed, no task of a later wave
\* exists (is submitted, claims or fetches); so a fetch at depth d+1 begins
\* only after every task at depth d has completed.
C6_WavesSequential ==
    /\ \A i, j \in Tasks : wave(i) < wave(j) => IsDone(i)
    /\ \A i, j \in Tasks :
          (futures[i].depth < futures[j].depth /\ futures[j].st # "queued") => IsDone(i)

\* C6 witness: a task of the third wave is fetching.
C6_Witness ==
    \E j \in Tasks : wave(j) = 3 /\ futures[j].st = "claimed"

\* the next_links of the wave's futures from the k-th on, in order, of those
\* that returned a result
RECURSIVE WaveLinks(_)
WaveLinks(k) ==
    IF k > WaveLen THEN <<>>
    ELSE (IF IsOk(FutureAt(k)) THEN futures[FutureAt(k)].result.next_links ELSE <<>>)
             \o WaveLinks(k + 1)

\* C7: a task whose GET failed returns None and its url is never yielded;
\* the generator never dies of it (it dies only of an exception raised after
\* a successful GET); every yielded line is the record of a task that
\* returned one; once the for loop is past a wave, every task of the wave
\* that returned a record has had it yielded, and the next wave's queue is
\* the links of exactly those tasks.
C7_FetchFailureNotFatal ==
    /\ \A i \in Tasks :
          futures[i].got = "error" => (IsNone(i) /\ futures[i].url \notin EmittedUrls)
    /\ pc = "crashed" => futures[FutureAt(fi)].got = "ok"
    /\ \A k \in 1..Len(emitted) :
          \E i \in Tasks : IsOk(i) /\ futures[i].result.page_data = emitted[k]
    /\ \A i \in Tasks :
          (IsOk(i) /\ (wave(i) < CurrentWave \/ pc \in {"while", "done"}))
              => futures[i].url \in EmittedUrls
    /\ (pc = "while" /\ CurrentWave >= 1) => queue = WaveLinks(1)

\* C7 witness: in one wave a GET failed and a sibling's record was yielded,
\* and a later wave was submitted from the sibling's links.
C7_Witness ==
    \E i, j \in Tasks :
        /\ wave(i) = wave(j)
        /\ futures[i].got = "error"
        /\ IsOk(j) /\ futures[j].url \in EmittedUrls
        /\ CurrentWave > wave(i)

\* C8 (as claimed, with FanLinks = 15 and FanMaxPages = 10 scaled down): the
\* finished crawl yielded FanMaxPages records and FanLinks - FanMaxPages of
\* the seed's links were never claimed.
C8_AsClaimed ==
    pc = "done" =>
        /\ Len(emitted) = FanMaxPages
        /\ Cardinality(FanPages \ visited) = FanLinks - FanMaxPages

\* C8 (amended): the finished crawl yielded FanMaxPages records, the seed's
\* among them, and FanLinks - FanMaxPages + 1 of the seed's links were never
\* claimed.
C8_FanCapped ==
    pc = "done" =>
        /\ Len(emitted) = FanMaxPages
        /\ Seed \in EmittedUrls
        /\ Cardinality(FanPages \ visited) = FanLinks - FanMaxPages + 1

\* C8 witness: the fan crawl ran to its end.
C8_Witness ==
    /\ site = "fan"
    /\ pc = "done"
    /\ max_depth >= 1
    /\ Len(emitted) = FanMaxPages
    /\ Len(futures) = FanLinks + 1

\* C9: the consumer can stop at any yield without waiting for the wave's
\* tasks, and after it stopped nothing is yielded, no future is submitted
\* and the generator takes no further step.
C9_CancelStops ==
    /\ [](pc = "yield" => ENABLED Cancel)
    /\ [][pc = "cancelled" =>
            /\ pc' = "cancelled"
            /\ emitted' = emitted
            /\ Len(futures') = Len(futures)
            /\ queue' = queue]_vars

\* C9 witness: the consumer stopped while a task of the wave was still running.
C9_Witness ==
    /\ pc = "cancelled"
    /\ \E i \in Tasks : futures[i].st \in {"running", "claimed"}

\* C10 (as claimed): in every terminal state of the generator the executor
\* has been shut down.
C10_PoolTornDown ==
    pc \in {"done", "cancelled"} => executor = "shutdown"

\* C11 (as claimed): with a seed URL that has no scheme and no host, no
\* task is submitted, no URL is claimed and no fetch is attempted.
C11_BadSeedRejected ==
    seed_url.netloc = <<>> =>
        /\ futures = <<>>
        /\ visited = {}
        /\ claimLog = <<>>

Min(a, b) == IF a <= b THEN a ELSE b

\* C13 (as claimed): a crawl whose consumer keeps reading can only stop in
\* Done (the loop left, the executor shut down), after at most
\* min(max_depth + 2, max_pages + 1) waves.
C13_ReachesDone ==
    /\ CurrentWave <= Min(max_depth + 2, max_pages + 1)
    /\ (pc # "cancelled" /\ ~ENABLED Next) => pc = "done"

\* the part of C13 that holds: the number of waves
C13_WaveBound == CurrentWave <= Min(max_depth + 2, max_pages + 1)

\* C15: on a seed page without outbound links, fetched successfully, only
\* the first wave is ever submitted, at most one record is yielded, and once
\* the for loop is past the wave exactly the seed's record has been yielded
\* and the queue is empty.
C15_LeafSeed ==
    /\ Len(futures) <= 1
    /\ (Len(futures) = 1 /\ futures[1].got = "ok") =>
          /\ Len(emitted) <= 1
          /\ pc \in {"while", "done"} =>
                /\ Len(emitted) = 1
                /\ emitted[1].url = seed_url
                /\ queue = <<>>

\* C15 witness: the crawl of the leaf seed ended with its one record.
C15_Witness ==
    /\ site = "leaf"
    /\ max_pages >= 1
    /\ pc = "done"
    /\ futures[1].got = "ok"
    /\ Len(emitted) = 1

ClaimedUrls == {claimLog[k].url : k \in 1..Len(claimLog)}
Filtered(u) == is_login_page(u) \/ is_tracking(u)

\* C18: only a passed claim inserts into visited; no filtered URL is ever in
\* visited; a task that did not pass the claim fetched nothing and returned
\* None; the step in which a task returns before or at the lock changes
\* neither visited nor the yielded records nor the queue; with a filtered
\* seed nothing is ever claimed or yielded.
C18_RejectedNoEffect ==
    /\ [](/\ visited = ClaimedUrls
          /\ \A u \in visited : ~Filtered(u)
          /\ \A i \in Tasks :
                ~Claimed(i) => (futures[i].got = "nothing" /\ (IsDone(i) => IsNone(i)))
          /\ Filtered(seed_url) => (visited = {} /\ emitted = <<>> /\ Len(futures) <= 1))
    /\ [][\A i \in Tasks :
            (futures[i].st \in {"queued", "running"} /\ futures'[i].st = "done")
                => (visited' = visited /\ emitted' = emitted /\ queue' = queue)]_vars

\* C18 witness: a finished crawl with page budget left in which a login URL
\* and a tracking URL were dropped.
C18_Witness ==
    /\ pc = "done"
    /\ Cardinality(visited) < max_pages
    /\ \E i, j \in Tasks :
          /\ is_login_page(futures[i].url) /\ IsNone(i)
          /\ is_tracking(futures[j].url) /\ IsNone(j)

FailedClaims == {i \in Tasks : Claimed(i) /\ IsNone(i)}

\* C19: visited never shrinks; the url of a claimed task that returned None
\* stays in visited, is never yielded and is claimed by no other task; the
\* yielded urls are in visited; when the crawl has ended in Done the number
\* of records is |visited| minus the number of failed claims.
C19_FailedStaysVisited ==
    /\ [](/\ EmittedUrls \subseteq visited
          /\ \A i \in FailedClaims :
                /\ futures[i].url \in visited
                /\ futures[i].url \notin EmittedUrls
                /\ \A j \in Tasks : (Claimed(j) /\ futures[j].url = futures[i].url) => j = i
          /\ pc = "done" => Len(emitted) = Cardinality(visited) - Cardinality(FailedClaims))
    /\ [][visited \subseteq visited']_vars

\* C19 witness: a crawl ended with fewer than max_pages records: a claimed
\* page failed, and a fetchable page was refused for the page limit.
C19_Witness ==
    /\ pc = "done"
    /\ Len(emitted) < max_pages
    /\ FailedClaims # {}
    /\ \E i \in Tasks : CapRefused(i)

\* C20: every entry of a wave after the first is a link returned by a task
\* of the previous wave whose GET succeeded, has the seed's host and the
\* parent's depth plus one; the entries of wave w have depth w - 1; every
\* yielded url other than the seed's has the seed's host.
C20_FrontierFromParents ==
    /\ \A j \in Tasks :
          wave(j) > 1 =>
              /\ futures[j].url.netloc = seed_url.netloc
              /\ \E i \in Tasks :
                    /\ wave(i) = wave(j) - 1
                    /\ IsOk(i) /\ futures[i].got = "ok"
                    /\ futures[j].depth = futures[i].depth + 1
                    /\ \E k \in 1..Len(futures[i].result.next_links) :
                          futures[i].result.next_links[k] =
                              [url |-> futures[j].url, depth |-> futures[j].depth]
    /\ \A j \in Tasks : futures[j].depth = wave(j) - 1
    /\ \A u \in EmittedUrls : u = seed_url \/ u.netloc = seed_url.netloc

\* C20 witness: a page of the third wave was yielded.
C20_Witness ==
    \E j \in Tasks : wave(j) = 3 /\ IsOk(j) /\ futures[j].url \in EmittedUrls

\* C12 (as claimed): fetch_api_json_sections issues at most
\* MAX_API_CALLS_PER_PAGE GET requests for a page.
C12_ApiGetsCapped == page.gets <= MAX_API_CALLS_PER_PAGE

\* what the loop does bound: the requests answered with parseable JSON
C12_JsonAnswersCapped == page.count <= MAX_API_CALLS_PER_PAGE

IsHtmlSection(sec) == sec.heading \in {"Page", "h2"}
IsScriptSection(sec) == sec.heading \in {"JSON-LD", "App State"}
IsApiSection(sec) == sec.heading = "API"
Rank(sec) == IF IsHtmlSection(sec) THEN 1 ELSE IF IsScriptSection(sec) THEN 2 ELSE 3

\* C14: in the sections of the page record no script section precedes an
\* HTML section and no API section precedes a script or HTML section, and
\* the HTML, script and API sections in it are, each in its order, what the
\* three extractors returned.
C14_SectionOrder ==
    page.pc = "done" =>
        /\ \A p, q \in 1..Len(page.all_sections) :
              p < q => Rank(page.all_sections[p]) <= Rank(page.all_sections[q])
        /\ SelectSeq(page.all_sections, IsHtmlSection) = page.html
        /\ SelectSeq(page.all_sections, IsScriptSection) = page.script
        /\ SelectSeq(page.all_sections, IsApiSection) = page.api_sections

\* C14 witness: a page record with sections of all three kinds.
C14_Witness ==
    /\ page.pc = "done"
    /\ Len(page.html_sections) = 2
    /\ Len(page.json_script_sections) = 2
    /\ Len(page.api_sections) >= 2

\* the string values of a document, each with the path and the key it is
\* reached under
RECURSIVE Leaves(_, _, _)
RECURSIVE LeavesOfItems(_, _)
RECURSIVE LeavesOfList(_, _, _)
Leaves(o, path, last_key) ==
    CASE o.t = "dict" -> LeavesOfItems(o.v, path)
      [] o.t = "list" -> LeavesOfList(o.v, path, last_key)
      [] o.t = "str" -> { [path |-> path, last_key |-> last_key, text |-> o.v] }
      [] OTHER -> {}

LeavesOfItems(items, path) ==
    IF items = <<>> THEN {}
    ELSE Leaves(Head(items).v, Append(path, Head(items).k), Key(Head(items).k))
             \cup LeavesOfItems(Tail(items), path)

LeavesOfList(values, path, last_key) ==
    IF values = <<>> THEN {}
    ELSE Leaves(Head(values), path, last_key) \cup LeavesOfList(Tail(values), path, last_key)

DocLeaves == Leaves(jts.obj, TopPath(jts.heading_prefix), NoKey)

\* the string of leaf l is one of the chunks of the section of its path
Contributes(l) ==
    \E n \in 1..Len(jts.texts_by_key) :
        /\ jts.texts_by_key[n].key = l.path
        /\ \E c \in 1..Len(jts.texts_by_key[n].chunks) :
              jts.texts_by_key[n].chunks[c] = strip(l.text)
        /\ \E m \in 1..Len(jts.sections) : jts.sections[m].heading = l.path

ListedKeys ==
    { "title", "heading", "name", "description", "summary", "details", "body",
      "content", "text", "objective", "objectives", "outcome", "outcomes",
      "eligibility", "syllabus" }

TextKept(l) ==
    /\ Len(split(strip(l.text))) >= 5
    /\ ~StartsHttp(strip(l.text))

\* C16 (as claimed, reading the key case-insensitively and an empty key as
\* no key): a string contributes only if it has at least 5 words, does not
\* start like a URL, and its key is one of the fifteen listed or it has none.
C16_AsClaimed ==
    jts.pc = "done" =>
        \A l \in DocLeaves :
            Contributes(l) =>
                /\ TextKept(l)
                /\ (Falsy(l.last_key) \/ LowerStr(l.last_key.k) \in ListedKeys)

\* C16 (amended): as claimed, with "overview" among the keys.
C16_KeptOnlyIf ==
    jts.pc = "done" =>
        \A l \in DocLeaves :
            Contributes(l) =>
                /\ TextKept(l)
                /\ (Falsy(l.last_key)
                      \/ LowerStr(l.last_key.k) \in ListedKeys \cup {"overview"})

\* C16 witness: of two long strings of a document the one under "overview"
\* contributes and the one under "id" does not.
C16_Witness ==
    /\ jts.pc = "done"
    /\ \E l1, l2 \in DocLeaves :
          /\ l1.last_key = Key("overview") /\ Contributes(l1)
          /\ l2.last_key = Key("id") /\ l2.text = Longer /\ ~Contributes(l2)

\* a URL with no parseable host: urlparse raises, or finds no netloc
Malformed(url) == ParseRaises(url) \/ url.netloc = <<>>

\* C17: is_internal(base, candidate) is false whenever either argument has no
\* parseable host, both included.
C17_MalformedNotInternal ==
    cls.pc \in {"login", "tracking", "done"} =>
        ((Malformed(cls.base) \/ Malformed(cls.link)) => cls.internal = FALSE)

\* the part of C17 the code keeps: an argument urlparse raises on gives false
C17_ParseErrorNotInternal ==
    cls.pc \in {"login", "tracking", "done"} =>
        ((ParseRaises(cls.base) \/ ParseRaises(cls.link)) => cls.internal = FALSE)

====
